---- MODULE Spec2Model ----
(***************************************************************************)
(* EventPlanner backend: the four relations of the Postgres store (users,  *)
(* events, event_participants, tasks) and the HTTP handlers that read and  *)
(* write them.  Every request runs in its own goroutine; every SQL         *)
(* statement is sent on its own (pool.QueryRow / pool.Exec, autocommit),   *)
(* so one statement is one atomic step and requests interleave between     *)
(* the statements of a handler.                                            *)
(***************************************************************************)
EXTENDS Integers, FiniteSets, Sequences, TLC

\* ---------------------------------------------------------------- bounds
NumUsers == 2
NumProcs == 2
MaxReq == 3
MaxEvents == 2
MaxTasks == 1
MaxClock == 2
NumEmails == 2
MaxSignups == 3
TicksPerDay == 3
MaxZone == 1
MaxDay == 2

\* ------------------------------------------------------------ value sets
Procs == 1..NumProcs
UserIds == 1..NumUsers
\* X-User-ID header: absent (0), a registered user, or an id no user has
Ghost == NumUsers + 1
Identities == 0..Ghost
\* the :id path parameter: a number (no event has id 0), or for the one
\* handler that tells the two apart, not a number (BadId)
BadId == -1
EventIdInputs == 0..MaxEvents
TaskEventIdInputs == {BadId} \cup EventIdInputs
NoDate == -1
DueInputs == {NoDate} \cup 1..MaxClock
NoUser == 0
AssigneeInputs == {NoUser, 1, Ghost}
NullAttendance == "null"
Roles == {"organizer", "attendee", "collaborator"}
BadRole == "owner"
RoleInputs == Roles \cup {BadRole}
Statuses == {"going", "maybe", "not_going"}
BadStatus == "late"
Titles == {"", "t"}
Emails == 1..NumEmails
Passwords == {"secret1", "secret2"}

\* startTime of a create request: an RFC3339 string, here its wall clock
\* and its zone offset, or a string that does not parse
BadTime == [ok |-> FALSE, clock |-> 0, offset |-> 0]
StartInputs ==
  {[ok |-> TRUE, clock |-> c, offset |-> o] : c \in 1..MaxClock, o \in {0, 1}}
    \cup {BadTime}

\* time.Parse(time.RFC3339, s): the instant is the wall clock minus the offset
ParseRFC3339(s) == s.clock - s.offset

NoReq == [op |-> "none"]
NoOut ==
  [req |-> NoReq, status |-> 0, body |-> "", id |-> 0,
   events |-> <<>>, tasks |-> <<>>]

VARIABLES
  users,          \* relation users
  nextUserId,     \* users_id_seq
  events,         \* relation events
  nextEventId,    \* events_id_seq
  participants,   \* relation event_participants
  tasks,          \* relation tasks
  nextTaskId,     \* tasks_id_seq
  pc,             \* per request slot: the statement the handler is about to run
  req,            \* per request slot: the request being served
  loc,            \* per request slot: the handler's local result of its last query
  nreq,           \* number of requests received so far
  out,            \* the HTTP response written by the step just taken, if any
  seen            \* the failed-login responses written so far, with their cause

vars == <<users, nextUserId, events, nextEventId, participants, tasks,
          nextTaskId, pc, req, loc, nreq, out, seen>>

db == <<users, nextUserId, events, nextEventId, participants, tasks, nextTaskId>>
eventDb == <<events, nextEventId, participants, tasks, nextTaskId>>

\* ------------------------------------------------------- password hashing
\* bcrypt.GenerateFromPassword / CompareHashAndPassword
Hash(pw) == <<"bcrypt", pw>>
CompareHashAndPassword(h, pw) == h = Hash(pw)

\* ------------------------------------------------------------ queries
UserExists(u) == \E x \in users : x.id = u
EventExists(e) == \E x \in events : x.id = e
HasRow(e, u) == \E r \in participants : r.event_id = e /\ r.user_id = u

\* the relation itself: u has a row with role organizer for e
HoldsOrganizerRole(e, u) ==
  \E r \in participants : r.role = "organizer" /\ r.event_id = e /\ r.user_id = u

\* the same query with the role test left out
AnyRoleCheck(e, u) ==
  \E r \in participants : r.event_id = e /\ r.user_id = u

\* the same query, passing collaborators too
OrganizerOrCollaborator(e, u) ==
  \E r \in participants :
    r.event_id = e /\ r.user_id = u /\ r.role \in {"organizer", "collaborator"}

\* no self-invitation check
SelfInviteAllowed(u, v) == FALSE

\* the creator inserted with the column default of a plain member
CreatorAsAttendee(e, u) ==
  [event_id |-> e, user_id |-> u, role |-> "attendee",
   attendance |-> NullAttendance, invited_by |-> NoUser]

\* eventRepository.IsOrganizer, the guard of eventService.CreateTask:
\* SELECT 1 FROM event_participants WHERE event_id=$1 AND user_id=$2
\* AND role='organizer'
IsOrganizer(e, u) ==
  \E r \in participants : r.event_id = e /\ r.user_id = u /\ r.role = "organizer"

\* the same query, written out again as the check of DeleteIfOrganizer
DeleteCheck(e, u) ==
  \E r \in participants : r.event_id = e /\ r.user_id = u /\ r.role = "organizer"

\* the same query, written out again as the check of eventRepository.Invite
InviteCheck(e, u) ==
  \E r \in participants : r.event_id = e /\ r.user_id = u /\ r.role = "organizer"

\* EventHandler.Invite: if userID == req.UserID
SelfInvite(u, v) == u = v

\* the row eventRepository.Create inserts for the creator
OrganizerRow(e, u) ==
  [event_id |-> e, user_id |-> u, role |-> "organizer",
   attendance |-> NullAttendance, invited_by |-> NoUser]

\* strings.ToLower on the strings of the model
ToLower(s) ==
  CASE s = "T" -> "t"
    [] s = "Organizer" -> "organizer"
    [] OTHER -> s

\* a DELETE of the event that leaves the referencing rows in place
DeleteNoCascade(R, e) == R

\* ON DELETE CASCADE of event_participants.event_id and tasks.event_id:
\* the rows of relation R left when event e is deleted
DeleteCascade(R, e) == {r \in R : r.event_id # e}

\* a plain INSERT into a table with no key on (event_id, user_id)
InsertParticipant(P, e, v, role, by) ==
  P \cup {[event_id |-> e, user_id |-> v, role |-> ToLower(role),
           attendance |-> NullAttendance, invited_by |-> by]}

\* an upsert whose DO UPDATE also resets the attendance
UpsertResetAttendance(P, e, v, role, by) ==
  {r \in P : ~(r.event_id = e /\ r.user_id = v)}
    \cup {[event_id |-> e, user_id |-> v, role |-> ToLower(role),
            attendance |-> NullAttendance, invited_by |-> by]}

\* INSERT INTO event_participants (event_id,user_id,role,invited_by)
\* ... ON CONFLICT (event_id,user_id) DO UPDATE SET role, invited_by
UpsertParticipant(P, e, v, role, by) ==
  IF \E r \in P : r.event_id = e /\ r.user_id = v
    THEN {IF r.event_id = e /\ r.user_id = v
            THEN [r EXCEPT !.role = ToLower(role), !.invited_by = by]
            ELSE r : r \in P}
    ELSE P \cup {[event_id |-> e, user_id |-> v, role |-> ToLower(role),
                  attendance |-> NullAttendance, invited_by |-> by]}

\* an INSERT that leaves attendance at its column default
InsertAttendeeDefault(P, e, u, s) ==
  P \cup {[event_id |-> e, user_id |-> u, role |-> "attendee",
           attendance |-> NullAttendance, invited_by |-> NoUser]}

\* an INSERT that makes the caller an organizer
InsertAsOrganizer(P, e, u, s) ==
  P \cup {[event_id |-> e, user_id |-> u, role |-> "organizer",
           attendance |-> ToLower(s), invited_by |-> NoUser]}

\* INSERT INTO event_participants (event_id, user_id, role, attendance,
\* updated_at) VALUES ($1, $2, 'attendee', $3, NOW())
InsertAttendee(P, e, u, s) ==
  P \cup {[event_id |-> e, user_id |-> u, role |-> "attendee",
           attendance |-> ToLower(s), invited_by |-> NoUser]}

\* an UPDATE that also makes the row an attendee's
UpdateAsAttendee(P, e, u, s) ==
  {IF r.event_id = e /\ r.user_id = u
     THEN [r EXCEPT !.attendance = ToLower(s), !.role = "attendee"]
     ELSE r : r \in P}

\* UPDATE event_participants SET attendance = $3 WHERE event_id = $1
\* AND user_id = $2
UpdateAttendance(P, e, u, s) ==
  {IF r.event_id = e /\ r.user_id = u
     THEN [r EXCEPT !.attendance = ToLower(s)]
     ELSE r : r \in P}

\* the handler takes every target as the caller's own
AnyTarget(u, t) == FALSE

\* EventHandler.SetAttendance: targetUserID := req.UserID, the requester
\* when it is 0
TargetUser(u, v) == IF v = 0 THEN u ELSE v

\* EventHandler.SetAttendance: if targetUserID != requesterID
NotOwnTarget(u, t) == t # u

\* an accept recorded as undecided
AcceptAsMaybe == "maybe"

\* EventHandler.AcceptInvite: the status it passes to SetAttendance
AcceptStatus == "going"

\* SELECT EXISTS(SELECT 1 FROM events WHERE start_time = $1)
checkExistingEvent(start) == \E x \in events : x.start_time = start

\* ------------------------------------------------------------ plumbing
\* c.JSON(status, body) and return: the slot becomes free
Respond(p, r, status, body, id) ==
  /\ pc' = [pc EXCEPT ![p] = "idle"]
  /\ req' = [req EXCEPT ![p] = NoReq]
  /\ loc' = [loc EXCEPT ![p] = 0]
  /\ out' = [req |-> r, status |-> status, body |-> body, id |-> id,
             events |-> <<>>, tasks |-> <<>>]

\* c.JSON(http.StatusOK, rows) and return
RespondRows(p, r, evs, tks) ==
  /\ pc' = [pc EXCEPT ![p] = "idle"]
  /\ req' = [req EXCEPT ![p] = NoReq]
  /\ loc' = [loc EXCEPT ![p] = 0]
  /\ out' = [req |-> r, status |-> 200, body |-> "rows", id |-> 0,
             events |-> evs, tasks |-> tks]

\* the handler goes on to its next statement
Goto(p, r, label, l) ==
  /\ pc' = [pc EXCEPT ![p] = label]
  /\ req' = [req EXCEPT ![p] = r]
  /\ loc' = [loc EXCEPT ![p] = l]
  /\ out' = NoOut

\* slot p is about to run the statement at label
At(p, label) == out = NoOut /\ pc[p] = label

\* the response written by c.JSON leaves the server
Deliver ==
  /\ out # NoOut
  /\ out' = NoOut
  /\ UNCHANGED <<db, pc, req, loc, nreq, seen>>

Receive(p) ==
  /\ out = NoOut
  /\ pc[p] = "idle"
  /\ nreq < MaxReq
  /\ nreq' = nreq + 1

\* The requests enumerated for a handler: every combination of its inputs,
\* except that a field the handler does not get to use, because an earlier
\* field already has the request refused, is left at one value.
CreateInputs ==
  {r \in [op : {"Create"}, user : Identities, title : Titles,
          startTime : StartInputs] :
     /\ r.user = 0 => r.title = ""
     /\ r.title = "" => r.startTime = BadTime}

SignupsInFlight == Cardinality({q \in Procs : pc[q] = "signup_insert"})

CreatesInFlight == Cardinality({q \in Procs : pc[q] = "create_insert_event"})

\* ------------------------------------------------------- POST /events
\* EventHandler.Create up to and including checkExistingEvent
CreateStart(p) ==
  /\ Receive(p)
  /\ nextEventId + CreatesInFlight <= MaxEvents
  /\ \E r \in CreateInputs :
       LET u == r.user
           t == r.title
           s == r.startTime IN
       IF u = 0 THEN Respond(p, r, 401, "unauthorized", 0)
       ELSE IF t = "" THEN Respond(p, r, 400, "binding", 0)
       ELSE IF ~s.ok THEN Respond(p, r, 400, "invalid startTime, use RFC3339", 0)
       ELSE IF checkExistingEvent(ParseRFC3339(s))
         THEN Respond(p, r, 500, "an event already exists at this time", 0)
       ELSE Goto(p, r, "create_insert_event", 0)
  /\ UNCHANGED <<db, seen>>

\* INSERT INTO events ... RETURNING id
CreateInsertEvent(p) ==
  /\ At(p, "create_insert_event")
  /\ IF ~UserExists(req[p].user)
       THEN /\ Respond(p, req[p], 500, "violates foreign key constraint", 0)
            /\ UNCHANGED events
       ELSE /\ events' = events \cup
                 {[id |-> nextEventId,
                   title |-> req[p].title, description |-> "",
                   location |-> "",
                   start_time |-> ParseRFC3339(req[p].startTime),
                   organizer_id |-> req[p].user]}
            /\ Goto(p, req[p], "create_insert_participant", nextEventId)
  /\ nextEventId' = nextEventId + 1
  /\ UNCHANGED <<users, nextUserId, participants, tasks, nextTaskId, nreq, seen>>

\* INSERT INTO event_participants (event_id, user_id, role) VALUES (.., 'organizer')
CreateInsertParticipant(p) ==
  /\ At(p, "create_insert_participant")
  /\ IF HasRow(loc[p], req[p].user)
       THEN /\ Respond(p, req[p], 500, "duplicate key value", 0)
            /\ UNCHANGED participants
     ELSE IF ~EventExists(loc[p]) \/ ~UserExists(req[p].user)
       THEN /\ Respond(p, req[p], 500, "violates foreign key constraint", 0)
            /\ UNCHANGED participants
     ELSE /\ participants' = participants \cup
               {OrganizerRow(loc[p], req[p].user)}
          /\ Respond(p, req[p], 200, "event", loc[p])
  /\ UNCHANGED <<users, nextUserId, events, nextEventId, tasks, nextTaskId,
                 nreq, seen>>

\* ------------------------------------------------- DELETE /events/:id
\* EventHandler.Delete up to and including the organizer check of
\* DeleteIfOrganizer; pgx.ErrNoRows is answered 403
DeleteInputs ==
  {r \in [op : {"Delete"}, user : Identities, event : EventIdInputs] :
     r.user = 0 => r.event = 0}

DeleteStart(p) ==
  /\ Receive(p)
  /\ \E r \in DeleteInputs :
       LET u == r.user
           e == r.event IN
       IF u = 0 THEN Respond(p, r, 401, "unauthorized", 0)
       ELSE IF e <= 0 THEN Respond(p, r, 400, "invalid event id", 0)
       ELSE IF ~DeleteCheck(e, u)
         THEN Respond(p, r, 403, "no rows in result set", 0)
       ELSE Goto(p, r, "delete_exec", 0)
  /\ UNCHANGED <<db, seen>>

\* DELETE FROM events WHERE id=$1, with the ON DELETE CASCADE of
\* event_participants.event_id and tasks.event_id
DeleteExec(p) ==
  /\ At(p, "delete_exec")
  /\ events' = {x \in events : x.id # req[p].event}
  /\ participants' = DeleteCascade(participants, req[p].event)
  /\ tasks' = DeleteCascade(tasks, req[p].event)
  /\ Respond(p, req[p], 200, "Event deleted successfully", 0)
  /\ UNCHANGED <<users, nextUserId, nextEventId, nextTaskId, nreq, seen>>

\* ------------------------------------------- POST /events/:id/invite
\* EventHandler.Invite up to and including the organizer check of
\* eventRepository.Invite
InviteInputs ==
  {r \in [op : {"Invite"}, user : Identities, event : EventIdInputs,
          invitee : Identities, role : RoleInputs] :
     /\ r.user = 0 => r.event = 0
     /\ r.event = 0 => r.invitee = 0
     /\ (r.invitee = 0 \/ r.invitee = r.user
            \/ ~HoldsOrganizerRole(r.event, r.user))
          => r.role = "attendee"}

InviteStart(p) ==
  /\ Receive(p)
  /\ \E r \in InviteInputs :
       LET u == r.user
           e == r.event
           v == r.invitee
           ro == r.role IN
       IF u = 0 THEN Respond(p, r, 401, "unauthorized", 0)
       ELSE IF e <= 0 THEN Respond(p, r, 400, "invalid event id", 0)
       ELSE IF v = 0 \/ ro \notin Roles THEN Respond(p, r, 400, "binding", 0)
       ELSE IF SelfInvite(u, v)
         THEN Respond(p, r, 400, "cannot invite yourself", 0)
       ELSE IF ~InviteCheck(e, u)
         THEN Respond(p, r, 403, "no rows in result set", 0)
       ELSE Goto(p, r, "invite_upsert", 0)
  /\ UNCHANGED <<db, seen>>

\* INSERT INTO event_participants ... ON CONFLICT (event_id,user_id)
\* DO UPDATE SET role, invited_by
InviteUpsert(p) ==
  /\ At(p, "invite_upsert")
  /\ LET e == req[p].event
         v == req[p].invitee IN
     IF ~HasRow(e, v)
          /\ (~EventExists(e) \/ ~UserExists(v) \/ ~UserExists(req[p].user))
       THEN /\ Respond(p, req[p], 500, "violates foreign key constraint", 0)
            /\ UNCHANGED participants
       ELSE /\ participants' =
                 UpsertParticipant(participants, e, v, req[p].role, req[p].user)
            /\ Respond(p, req[p], 200, "User invited successfully", 0)
  /\ UNCHANGED <<users, nextUserId, events, nextEventId, tasks, nextTaskId,
                 nreq, seen>>

\* -------------------- PUT /events/:id/attendance, PUT /events/:id/accept
\* EventHandler.SetAttendance up to and including the SELECT EXISTS of
\* eventRepository.SetAttendance
AttendanceInputs ==
  {r \in [op : {"SetAttendance"}, user : Identities, event : EventIdInputs,
          target : Identities, status : Statuses \cup {BadStatus}] :
     /\ r.user = 0 => r.event = 0
     /\ r.event = 0 => (r.status = "going" /\ r.target = 0)
     /\ r.status = BadStatus => r.target = 0}

AttendanceStart(p) ==
  /\ Receive(p)
  /\ \E r \in AttendanceInputs :
       LET u == r.user
           e == r.event
           v == r.target
           s == r.status
           targetUserID == TargetUser(u, v) IN
       IF u = 0 THEN Respond(p, r, 401, "unauthorized", 0)
       ELSE IF e <= 0 THEN Respond(p, r, 400, "invalid event id", 0)
       ELSE IF s \notin Statuses THEN Respond(p, r, 400, "binding", 0)
       ELSE IF NotOwnTarget(u, targetUserID)
         THEN Respond(p, r, 403, "you can only update your own attendance", 0)
       ELSE Goto(p, [r EXCEPT !.target = targetUserID], "attendance_write",
                 IF HasRow(e, targetUserID) THEN 1 ELSE 0)
  /\ UNCHANGED <<db, seen>>

\* EventHandler.AcceptInvite up to and including the SELECT EXISTS
AcceptInputs ==
  {r \in [user : Identities, event : EventIdInputs] : r.user = 0 => r.event = 0}

AcceptStart(p) ==
  /\ Receive(p)
  /\ \E q \in AcceptInputs :
       LET u == q.user
           e == q.event
           r == [op |-> "Accept", user |-> u, event |-> e, target |-> u,
                 status |-> AcceptStatus] IN
       IF u = 0 THEN Respond(p, r, 401, "unauthorized", 0)
       ELSE IF e <= 0 THEN Respond(p, r, 400, "invalid event id", 0)
       ELSE Goto(p, r, "attendance_write", IF HasRow(e, u) THEN 1 ELSE 0)
  /\ UNCHANGED <<db, seen>>

\* the INSERT (no row was found) or the UPDATE (a row was found) of
\* eventRepository.SetAttendance
AttendanceWrite(p) ==
  /\ At(p, "attendance_write")
  /\ LET e == req[p].event
         u == req[p].target
         ok == IF req[p].op = "Accept" THEN "Invitation accepted successfully"
               ELSE "Attendance updated successfully" IN
     IF loc[p] = 0
       THEN IF HasRow(e, u)
              THEN /\ Respond(p, req[p], 500, "duplicate key value", 0)
                   /\ UNCHANGED participants
            ELSE IF ~EventExists(e) \/ ~UserExists(u)
              THEN /\ Respond(p, req[p], 500, "violates foreign key constraint", 0)
                   /\ UNCHANGED participants
            ELSE /\ participants' =
                      InsertAttendee(participants, e, u, req[p].status)
                 /\ Respond(p, req[p], 200, ok, 0)
       ELSE /\ participants' =
                 UpdateAttendance(participants, e, u, req[p].status)
            /\ Respond(p, req[p], 200, ok, 0)
  /\ UNCHANGED <<users, nextUserId, events, nextEventId, tasks, nextTaskId,
                 nreq, seen>>

\* eventRepository.SetAttendance run with no other statement between its
\* SELECT EXISTS and its write: the participant rows it leaves
SetAttendance(P, e, u, s) ==
  IF \E r \in P : r.event_id = e /\ r.user_id = u
    THEN UpdateAttendance(P, e, u, s)
  ELSE IF ~EventExists(e) \/ ~UserExists(u) THEN P
  ELSE InsertAttendee(P, e, u, s)

\* ------------------------- GET /events/organized, GET /events/invited
\* the rows in any order, as a query without ORDER BY may return them
AnyOrder(key) ==
  LET S == DOMAIN key IN
  {s \in [1..Cardinality(S) -> S] :
     \A i, j \in 1..Cardinality(S) : i # j => s[i] # s[j]}

\* the orders in which ORDER BY key ASC may return rows, key being the
\* function from the rows to their sort keys
Orderings(key) ==
  LET S == DOMAIN key IN
  {s \in [1..Cardinality(S) -> S] :
     /\ \A i, j \in 1..Cardinality(S) : i # j => s[i] # s[j]
     /\ \A i, j \in 1..Cardinality(S) : i < j => key[s[i]] <= key[s[j]]}

\* a list that leaves out the join with the caller's rows
ListEveryEvent(u, role) == {<<e, e>> : e \in events}

\* eventRepository.ListByRole: FROM events e JOIN event_participants p
\* ON p.event_id = e.id WHERE p.user_id = $1 AND p.role = $2
ListByRole(u, role) ==
  {row \in events \X participants :
     /\ row[2].event_id = row[1].id
     /\ row[2].user_id = u
     /\ row[2].role = role}

\* eventService.ListOrganized, eventService.ListInvited: the events listed
ListOrganized(u) == {row[1] : row \in ListByRole(u, "organizer")}
ListInvited(u) == {row[1] : row \in ListByRole(u, "attendee")}

ListInputs == [op : {"ListOrganized", "ListInvited"}, user : Identities]

\* EventHandler.ListOrganized, EventHandler.ListInvited
ListStart(p) ==
  /\ Receive(p)
  /\ \E r \in ListInputs :
       IF r.user = 0 THEN Respond(p, r, 401, "unauthorized", 0)
       ELSE \E s \in Orderings(
                [row \in ListByRole(r.user,
                                    IF r.op = "ListOrganized" THEN "organizer"
                                    ELSE "attendee") |-> row[1].start_time]) :
              RespondRows(p, r, [i \in DOMAIN s |-> s[i][1]], <<>>)
  /\ UNCHANGED <<db, seen>>

\* -------------------------------------------- POST /events/:id/tasks
TasksInFlight == Cardinality({q \in Procs : pc[q] = "task_insert"})

\* EventHandler.CreateTask and eventService.CreateTask up to the insert
TaskInputs ==
  {r \in [op : {"CreateTask"}, user : Identities, event : TaskEventIdInputs,
          title : Titles, due : DueInputs, assignee : AssigneeInputs] :
     /\ r.user = 0 => r.event = BadId
     /\ r.event = BadId => r.title = ""
     /\ (r.title = "" \/ ~HoldsOrganizerRole(r.event, r.user))
          => (r.due = NoDate /\ r.assignee = NoUser)}

TaskStart(p) ==
  /\ Receive(p)
  /\ nextTaskId + TasksInFlight <= MaxTasks
  /\ \E r \in TaskInputs :
       LET u == r.user
           e == r.event
           t == r.title IN
       IF u = 0 THEN Respond(p, r, 401, "authentication required", 0)
       ELSE IF e = BadId THEN Respond(p, r, 400, "invalid event ID", 0)
       ELSE IF t = "" THEN Respond(p, r, 400, "binding", 0)
       ELSE IF ~IsOrganizer(e, u)
         THEN Respond(p, r, 403, "only organizers can create tasks", 0)
       ELSE IF t = "" THEN Respond(p, r, 500, "task title is required", 0)
       ELSE Goto(p, r, "task_insert", 0)
  /\ UNCHANGED <<db, seen>>

\* eventRepository.CreateTask: INSERT INTO tasks ... RETURNING
TaskInsert(p) ==
  /\ At(p, "task_insert")
  /\ IF ~EventExists(req[p].event)
          \/ (req[p].assignee # NoUser /\ ~UserExists(req[p].assignee))
       THEN /\ Respond(p, req[p], 404, "event or assignee not found", 0)
            /\ UNCHANGED tasks
       ELSE /\ tasks' = tasks \cup
                 {[id |-> nextTaskId, event_id |-> req[p].event,
                   title |-> req[p].title, description |-> "",
                   due_date |-> req[p].due,
                   assignee_id |-> req[p].assignee]}
            /\ Respond(p, req[p], 201, "task", nextTaskId)
  /\ nextTaskId' = nextTaskId + 1
  /\ UNCHANGED <<users, nextUserId, events, nextEventId, participants,
                 nreq, seen>>

\* ------------------------------------------------------- POST /signup
ErrUserExists == "user already exists"
ErrInvalidCredentials == "invalid credentials"
ErrNone == ""

\* userRepository.GetByEmail: the user rows with that email (none: nil)
GetByEmail(email) == {x \in users : x.email = email}

\* userService.Signup up to the insert: the error it returns, if any
SignupCheck(email) ==
  IF GetByEmail(email) # {} THEN ErrUserExists ELSE ErrNone

\* AuthHandler.Signup: the status answered for an error of the service
SignupStatus(err) == IF err = ErrUserExists THEN 409 ELSE 500

SignupInputs ==
  {r \in [op : {"Signup"}, bind : BOOLEAN, email : Emails,
          password : Passwords] :
     ~r.bind => (r.email = 1 /\ r.password = "secret1")}

\* AuthHandler.Signup and userService.Signup up to and including GetByEmail
SignupStart(p) ==
  /\ Receive(p)
  /\ nextUserId + SignupsInFlight <= MaxSignups
  /\ \E r \in SignupInputs :
       IF ~r.bind THEN Respond(p, r, 400, "binding", 0)
       ELSE IF SignupCheck(r.email) # ErrNone
         THEN Respond(p, r, SignupStatus(SignupCheck(r.email)),
                      SignupCheck(r.email), 0)
       ELSE Goto(p, r, "signup_insert", 0)
  /\ UNCHANGED <<db, seen>>

\* userRepository.Create: INSERT INTO users ... RETURNING; email is UNIQUE
SignupInsert(p) ==
  /\ At(p, "signup_insert")
  /\ nextUserId' = nextUserId + 1
  /\ IF GetByEmail(req[p].email) # {}
       THEN /\ Respond(p, req[p], SignupStatus("duplicate key value"),
                       "duplicate key value", 0)
            /\ UNCHANGED users
       ELSE /\ users' = users \cup
                 {[id |-> nextUserId, email |-> req[p].email,
                   password |-> Hash(req[p].password)]}
            /\ Respond(p, req[p], 200, "User created successfully", nextUserId)
  /\ UNCHANGED <<eventDb, nreq, seen>>

\* -------------------------------------------------------- POST /login
\* a Login that tells an unknown email apart from a wrong password
LoginServiceTelling(email, password) ==
  IF GetByEmail(email) = {}
    THEN [err |-> "user not found", site |-> "no user", id |-> 0]
  ELSE LET user == CHOOSE x \in GetByEmail(email) : TRUE IN
    IF ~CompareHashAndPassword(user.password, password)
      THEN [err |-> ErrInvalidCredentials, site |-> "wrong password", id |-> 0]
    ELSE [err |-> ErrNone, site |-> "ok", id |-> user.id]

\* userService.Login: the error returned and the return statement it
\* comes from
LoginService(email, password) ==
  IF GetByEmail(email) = {}
    THEN [err |-> ErrInvalidCredentials, site |-> "no user", id |-> 0]
  ELSE LET user == CHOOSE x \in GetByEmail(email) : TRUE IN
    IF ~CompareHashAndPassword(user.password, password)
      THEN [err |-> ErrInvalidCredentials, site |-> "wrong password", id |-> 0]
    ELSE [err |-> ErrNone, site |-> "ok", id |-> user.id]

\* AuthHandler.Login: the status answered for an error of the service
LoginStatus(err) == IF err # ErrInvalidCredentials THEN 500 ELSE 401

LoginInputs ==
  {r \in [op : {"Login"}, bind : BOOLEAN, email : Emails,
          password : Passwords] :
     ~r.bind => (r.email = 1 /\ r.password = "secret1")}

\* AuthHandler.Login with userService.Login: one SELECT, then the compare
Login(p) ==
  /\ Receive(p)
  /\ \E r \in LoginInputs :
       LET res == LoginService(r.email, r.password) IN
       IF ~r.bind
         THEN Respond(p, r, 400, "binding", 0) /\ UNCHANGED seen
       ELSE IF res.err # ErrNone
         THEN /\ Respond(p, r, LoginStatus(res.err), res.err, 0)
              /\ seen' = seen \cup
                   {[site |-> res.site, status |-> LoginStatus(res.err),
                     body |-> res.err]}
       ELSE Respond(p, r, 200, "mock-jwt-token", res.id) /\ UNCHANGED seen
  /\ UNCHANGED db

\* ------------------------------------------------------ store failure
\* the statement a handler is about to run returns an error other than
\* those above (connection lost, deadline): every handler answers 500
DbError(p) ==
  /\ out = NoOut
  /\ pc[p] # "idle"
  /\ Respond(p, req[p], 500, "store error", 0)
  /\ UNCHANGED <<db, nreq, seen>>

\* ------------------------------------------------------------ system
RegisteredUsers ==
  {[id |-> u, email |-> u, password |-> Hash("secret1")] : u \in UserIds}

Init ==
  /\ users = RegisteredUsers
  /\ nextUserId = NumUsers + 1
  /\ events = {}
  /\ nextEventId = 1
  /\ participants = {}
  /\ tasks = {}
  /\ nextTaskId = 1
  /\ pc = [p \in Procs |-> "idle"]
  /\ req = [p \in Procs |-> NoReq]
  /\ loc = [p \in Procs |-> 0]
  /\ nreq = 0
  /\ out = NoOut
  /\ seen = {}

Next ==
  \/ \E p \in Procs : CreateStart(p)
  \/ \E p \in Procs : CreateInsertEvent(p)
  \/ \E p \in Procs : CreateInsertParticipant(p)
  \/ \E p \in Procs : DeleteStart(p)
  \/ \E p \in Procs : DeleteExec(p)
  \/ \E p \in Procs : InviteStart(p)
  \/ \E p \in Procs : InviteUpsert(p)
  \/ \E p \in Procs : AttendanceStart(p)
  \/ \E p \in Procs : AcceptStart(p)
  \/ \E p \in Procs : AttendanceWrite(p)
  \/ \E p \in Procs : ListStart(p)
  \/ \E p \in Procs : TaskStart(p)
  \/ \E p \in Procs : TaskInsert(p)
  \/ \E p \in Procs : DbError(p)
  \/ Deliver

Spec == Init /\ [][Next]_vars

\* signup and login, from an empty users relation
InitAuth ==
  /\ users = {}
  /\ nextUserId = 1
  /\ events = {}
  /\ nextEventId = 1
  /\ participants = {}
  /\ tasks = {}
  /\ nextTaskId = 1
  /\ pc = [p \in Procs |-> "idle"]
  /\ req = [p \in Procs |-> NoReq]
  /\ loc = [p \in Procs |-> 0]
  /\ nreq = 0
  /\ out = NoOut
  /\ seen = {}

NextAuth ==
  \/ \E p \in Procs : SignupStart(p)
  \/ \E p \in Procs : SignupInsert(p)
  \/ \E p \in Procs : Login(p)
  \/ \E p \in Procs : DbError(p)
  \/ Deliver

SpecAuth == InitAuth /\ [][NextAuth]_vars

\* ------------------------------------------- an event with two organizers
\* The store after user 1 created event 1 and invited user 2 to it with
\* role organizer, no request being served: the requests counted from here
\* on are served as in Spec.
InitTwoOrganizers ==
  /\ users = RegisteredUsers
  /\ nextUserId = NumUsers + 1
  /\ events = {[id |-> 1, title |-> "t", description |-> "", location |-> "",
                start_time |-> 1, organizer_id |-> 1]}
  /\ nextEventId = 2
  /\ participants =
       UpsertParticipant({OrganizerRow(1, 1)}, 1, 2, "organizer", 1)
  /\ tasks = {}
  /\ nextTaskId = 1
  /\ pc = [p \in Procs |-> "idle"]
  /\ req = [p \in Procs |-> NoReq]
  /\ loc = [p \in Procs |-> 0]
  /\ nreq = 0
  /\ out = NoOut
  /\ seen = {}

SpecTwoOrganizers == InitTwoOrganizers /\ [][Next]_vars

\* ---------------------------------------------------------- GET /search
\* Instants are counted in ticks from a UTC midnight, TicksPerDay ticks a
\* day; a zone is the offset of the server's local time from UTC in ticks.
WeekDays == 7
Zones == (0 - MaxZone)..MaxZone
Nows == TicksPerDay..(2 * TicksPerDay - 1)
Never == (WeekDays + 3) * TicksPerDay

\* time.Date(t.Year(), t.Month(), t.Day(), 0, 0, 0, 0, t.Location()):
\* the midnight of t's day on the local clock
truncateToDay(t, zone) == ((t + zone) \div TicksPerDay) * TicksPerDay - zone

\* t.Truncate(24 * time.Hour): t rounded down to a multiple of a day since
\* the zero time, which is a UTC midnight, whatever t's location
Truncate24h(t) == (t \div TicksPerDay) * TicksPerDay

\* .Add(23*time.Hour + 59*time.Minute + 59*time.Second): the day's last tick
EndOfDayShift == TicksPerDay - 1

\* a start / end query parameter: absent, a token, YYYY-MM-DD, or neither
DateParam(kind, day) == [kind |-> kind, day |-> day]
Absent == DateParam("absent", 0)
BadDate == DateParam("bad", 0)
StartParams ==
  {Absent, BadDate, DateParam("today", 0), DateParam("date", 1)}
EndParams ==
  {Absent, BadDate} \cup {DateParam(k, 0) : k \in {"today", "tomorrow", "nextweek"}}
    \cup {DateParam("date", d) : d \in 1..MaxDay}

\* parseDate: the instant a parameter that parses stands for
parseDate(d, now, zone) ==
  CASE d.kind = "today" -> truncateToDay(now, zone)
    [] d.kind = "tomorrow" -> truncateToDay(now + TicksPerDay, zone)
    [] d.kind = "nextweek" -> truncateToDay(now + WeekDays * TicksPerDay, zone)
    [] d.kind = "date" -> d.day * TicksPerDay

\* SearchHandler.Search: fromPtr and toPtr (NoDate: nil)
fromPtr(r) ==
  IF r.start = Absent THEN NoDate ELSE parseDate(r.start, r.now, r.zone)
toPtr(r) ==
  IF r.end = Absent THEN NoDate
  ELSE Truncate24h(parseDate(r.end, r.now, r.zone)) + EndOfDayShift

\* text ILIKE '%'||q||'%', for texts and patterns of at most one letter
ILike(text, q) == q = "" \/ ToLower(text) = ToLower(q)

\* a role filter applied to the anonymous user too
RoleScopedAnyUser(userID, role) == role # ""

\* eventRepository.Search: if userID != 0 && role != ""
RoleScoped(userID, role) == userID # 0 /\ role # ""

\* a lower bound that leaves out the bound itself
StrictlyAfter(t, from) == t > from

\* e.start_time >= $n
NotBefore(t, from) == t >= from

\* e.start_time <= $n
NotAfter(t, to) == t <= to

\* a comparison with a NULL due date is not true
DueInRangeNoNull(due, from, to) ==
  /\ from # NoDate => (due # NoDate /\ due >= from)
  /\ to # NoDate => (due # NoDate /\ due <= to)

\* (t.due_date IS NULL OR t.due_date >= $n) and
\* (t.due_date IS NULL OR t.due_date <= $n), each for a bound that is given
DueInRange(due, from, to) ==
  /\ from # NoDate => (due = NoDate \/ due >= from)
  /\ to # NoDate => (due = NoDate \/ due <= to)

\* the row standing for "no join with event_participants"
NoRow == [event_id |-> 0, user_id |-> NoUser, role |-> "",
          attendance |-> NullAttendance, invited_by |-> NoUser]

\* FROM events e [JOIN event_participants p ON p.event_id = e.id]
EventJoin(userID, role) ==
  IF RoleScoped(userID, role) /\ role # "organizer"
    THEN {row \in events \X participants : row[2].event_id = row[1].id}
    ELSE {<<e, NoRow>> : e \in events}

\* the role condition of both queries of eventRepository.Search
RoleCond(e, p, userID, role) ==
  IF role = "organizer" THEN e.organizer_id = userID
  ELSE p.user_id = userID /\ p.role = ToLower(role)

\* eventRepository.Search, the events query: the rows selected
SearchEventRows(userID, q, from, to, role) ==
  {row \in EventJoin(userID, role) :
     LET e == row[1] IN
     /\ RoleScoped(userID, role) => RoleCond(e, row[2], userID, role)
     /\ q # "" => (\/ ILike(e.title, q)
                   \/ ILike(e.description, q)
                   \/ ILike(e.location, q))
     /\ from # NoDate => NotBefore(e.start_time, from)
     /\ to # NoDate => NotAfter(e.start_time, to)}

\* eventRepository.Search, the tasks query: FROM tasks t JOIN events e ON
\* e.id = t.event_id [JOIN event_participants p ON p.event_id = e.id]
SearchTaskRows(userID, q, from, to, role) ==
  {row \in tasks \X EventJoin(userID, role) :
     LET t == row[1]
         e == row[2][1] IN
     /\ e.id = t.event_id
     /\ RoleScoped(userID, role) => RoleCond(e, row[2][2], userID, role)
     /\ q # "" => (ILike(t.title, q) \/ ILike(t.description, q))
     /\ DueInRange(t.due_date, from, to)}

\* ORDER BY t.due_date NULLS LAST
NullsLast(due) == IF due = NoDate THEN Never ELSE due

\* eventRepository.Search: both queries run and their rows scanned, or a
\* query fails
SearchAnswer(p, r, userID, q, from, to, role) ==
  \/ Respond(p, r, 500, "failed to perform search", 0)
  \/ \E es \in Orderings([row \in SearchEventRows(userID, q, from, to, role)
                            |-> row[1].start_time]) :
       \E ts \in Orderings([row \in SearchTaskRows(userID, q, from, to, role)
                              |-> NullsLast(row[1].due_date)]) :
         RespondRows(p, r, [i \in DOMAIN es |-> es[i][1]],
                     [i \in DOMAIN ts |-> ts[i][1]])

SearchTexts == {"", "t"}
SearchRoles == {""} \cup Roles

SearchInputs ==
  {r \in [op : {"Search"}, q : SearchTexts, role : SearchRoles \cup {BadRole},
          start : StartParams, end : EndParams, now : Nows, zone : Zones] :
     /\ r.start = BadDate => r.end = Absent
     /\ (r.start = BadDate \/ r.end = BadDate) => r.role = ""
     /\ (r.start = BadDate \/ r.end = BadDate \/ r.role = BadRole)
          => (r.q = "" /\ r.now = TicksPerDay /\ r.zone = 0)
     /\ (r.start \in {Absent, DateParam("date", 1)}
           /\ r.end \in {Absent} \cup {DateParam("date", d) : d \in 1..MaxDay})
          => (r.now = TicksPerDay /\ r.zone = 0)}

\* SearchHandler.Search: the two SELECTs of eventRepository.Search are
\* taken in one step, no request served beside a search writes
Search(p) ==
  /\ out = NoOut
  /\ pc[p] = "idle"
  /\ \E r \in SearchInputs :
       IF r.start = BadDate
         THEN Respond(p, r, 400, "invalid 'start' date format", 0)
       ELSE IF r.end = BadDate
         THEN Respond(p, r, 400, "invalid 'end' date format", 0)
       ELSE IF r.role # "" /\ r.role \notin Roles
         THEN Respond(p, r, 400, "invalid role", 0)
       ELSE SearchAnswer(p, r, 0, r.q, fromPtr(r), toPtr(r), r.role)
  /\ UNCHANGED <<db, nreq, seen>>

\* the instants the sampled events, tasks and bounds are taken from
SampleInstants == {TicksPerDay, 2 * TicksPerDay - 1, 2 * TicksPerDay + 1}

ServiceSearchInputs ==
  [op : {"ServiceSearch"}, user : 0..NumUsers, q : SearchTexts \cup {"x"},
   role : SearchRoles, from : {NoDate} \cup SampleInstants,
   to : {NoDate} \cup SampleInstants]

\* searchService.Search called with any acting user
ServiceSearch(p) ==
  /\ out = NoOut
  /\ pc[p] = "idle"
  /\ \E r \in ServiceSearchInputs :
       SearchAnswer(p, r, r.user, r.q, r.from, r.to, r.role)
  /\ UNCHANGED <<db, nreq, seen>>

\* the stores a search is served from: event 1 of user 1, with or without
\* event 2 of user 2, the participant rows of the two users, up to three
\* tasks
SampleEvent(i, title, start) ==
  [id |-> i, title |-> title, description |-> "", location |-> "",
   start_time |-> start, organizer_id |-> i]

SampleEvents ==
  {{SampleEvent(1, "t", s)} \cup x :
     s \in {TicksPerDay, 2 * TicksPerDay - 1},
     x \in {{}, {SampleEvent(2, "T", 2 * TicksPerDay + 1)}}}

SampleRow(e, u, role, by) ==
  [event_id |-> e, user_id |-> u, role |-> role,
   attendance |-> NullAttendance, invited_by |-> by]

SampleParticipants(evs) ==
  {{SampleRow(1, 1, r1, IF r1 = "organizer" THEN NoUser ELSE 2)} \cup x \cup y :
     r1 \in {"organizer", "attendee"},
     x \in {{}} \cup {{SampleRow(1, 2, r2, 1)} : r2 \in Roles},
     y \in {{SampleRow(2, 2, "organizer", NoUser)}
              \cap {SampleRow(e.id, 2, "organizer", NoUser) : e \in evs}}}

SampleTask(i, title, due) ==
  [id |-> i, event_id |-> 1, title |-> title, description |-> "",
   due_date |-> due, assignee_id |-> NoUser]

SampleTasks ==
  LET all == {SampleTask(1, "t", NoDate),
              SampleTask(2, "T", 2 * TicksPerDay - 1),
              SampleTask(3, "t", TicksPerDay)} IN
  {S \in SUBSET all : SampleTask(3, "t", TicksPerDay) \in S => S = all}

InitSearch ==
  /\ users = RegisteredUsers
  /\ nextUserId = NumUsers + 1
  /\ events \in SampleEvents
  /\ nextEventId = MaxEvents + 1
  /\ participants \in SampleParticipants(events)
  /\ tasks \in SampleTasks
  /\ nextTaskId = 4
  /\ pc = [p \in Procs |-> "idle"]
  /\ req = [p \in Procs |-> NoReq]
  /\ loc = [p \in Procs |-> 0]
  /\ nreq = 0
  /\ out = NoOut
  /\ seen = {}

NextSearch ==
  \/ \E p \in Procs : Search(p)
  \/ \E p \in Procs : ServiceSearch(p)
  \/ Deliver

SpecSearch == InitSearch /\ [][NextSearch]_vars

\* ------------------------------------------- GET /search: the event entries
\* The entry of one event is a function of its start time and of the
\* evaluation time. Here instants are counted in clicks, ClicksPerHour
\* clicks an hour, so that durations under an hour exist.
ClicksPerHour == 2
MaxDaysAhead == 32
HoursPerDay == 24
MonthDays == 30

\* e.StartTime.After(now)
isUpcoming(start, now) == start > now

\* whole days counted upwards
DaysRoundedUp(hours) == (hours + HoursPerDay - 1) \div HoursPerDay

\* hours := int(duration.Hours()), for a positive duration
DurationHours(duration) == duration \div ClicksPerHour

\* days := hours / 24
WholeDays(hours) == hours \div HoursPerDay

NoTimeUntil == [text |-> "", n |-> 0]

\* the switch on days and hours: the text of timeUntil and the number
\* formatted into it
timeUntil(start, now) ==
  LET hours == DurationHours(start - now)
      days == WholeDays(hours) IN
  CASE days > MonthDays -> [text |-> "in more than a month", n |-> 0]
    [] days <= MonthDays /\ days > 1 -> [text |-> "in N days", n |-> days]
    [] days <= 1 /\ hours >= 1 -> [text |-> "in N hours", n |-> hours]
    [] OTHER -> [text |-> "very soon", n |-> 0]

\* eventData: the fields computed from the evaluation time; timeUntil is
\* set for an upcoming event only
eventData(start, now) ==
  [startTime |-> start,
   isUpcoming |-> isUpcoming(start, now),
   timeUntil |-> IF isUpcoming(start, now) THEN timeUntil(start, now)
                 ELSE NoTimeUntil]

EntryInputs ==
  [op : {"EventEntry"}, now : 0..1,
   startTime : 0..(MaxDaysAhead * HoursPerDay * ClicksPerHour)]

\* SearchHandler.Search, the loop "Process events": the entry written for
\* one event returned by the search, at one evaluation time
EventEntry(p) ==
  /\ out = NoOut
  /\ pc[p] = "idle"
  /\ \E r \in EntryInputs :
       RespondRows(p, r, <<eventData(r.startTime, r.now)>>, <<>>)
  /\ UNCHANGED <<db, nreq, seen>>

NextEntry ==
  \/ \E p \in Procs : EventEntry(p)
  \/ Deliver

SpecEntry == Init /\ [][NextEntry]_vars

\* ====================================================== the claims
\* the step receives a request (and may answer it at once)
Received == nreq' = nreq + 1

\* the request received by the step
ReceivedReq ==
  IF out' # NoOut THEN out'.req
  ELSE req'[CHOOSE p \in Procs : pc'[p] # pc[p]]

\* no Create is between its two inserts for event e
Settled(e) ==
  \A p \in Procs : ~(pc[p] = "create_insert_participant" /\ loc[p] = e)

OrganizerRowsOf(e) ==
  {r \in participants : r.event_id = e /\ r.role = "organizer"}

\* C1: no two rows of the events relation share the same start_time, in
\* every reachable state under any interleaving of Create requests.
C1_UniqueStartTime ==
  \A a, b \in events : a.start_time = b.start_time => a = b

\* C2: event creation is atomic with the insertion of the creator's
\* organizer row: no event whose Create is over (completed, failed or
\* aborted) is without the row (event, creator, organizer).
C2_CreateAtomic ==
  \A e \in events :
    Settled(e.id) =>
      \E r \in participants :
        r.event_id = e.id /\ r.user_id = e.organizer_id /\ r.role = "organizer"

\* C3: immediately after a successful Create of event E by user O, exactly
\* one participant row with role organizer exists for E, and its user is
\* E's organizer id O.
C3_OneOrganizerAfterCreate ==
  (out.req.op = "Create" /\ out.status = 200) =>
    /\ \E e \in events : e.id = out.id /\ e.organizer_id = out.req.user
    /\ Cardinality(OrganizerRowsOf(out.id)) = 1
    /\ \A r \in OrganizerRowsOf(out.id) : r.user_id = out.req.user

C3_Witness == out.req.op = "Create" /\ out.status = 200

\* C4: a Create request whose start time equals that of an existing event
\* is answered 409 (Conflict) and adds neither an event nor a participant.
C4_DuplicateStartIsConflict ==
  [][(/\ Received
      /\ ReceivedReq.op = "Create"
      /\ ReceivedReq.user # 0
      /\ ReceivedReq.title # ""
      /\ ReceivedReq.startTime.ok
      /\ \E x \in events :
           x.start_time = ReceivedReq.startTime.clock - ReceivedReq.startTime.offset)
     => (out'.status = 409 /\ UNCHANGED <<events, participants>>)]_vars

\* C5: Delete of event E by a user with no organizer row for E is answered
\* 403 and the deletion is not attempted: the request ends there and the
\* events, the participant rows and the tasks are unchanged.
C5_DeleteForbidden ==
  [][(/\ Received
      /\ ReceivedReq.op = "Delete"
      /\ ReceivedReq.user # 0
      /\ ReceivedReq.event > 0
      /\ ~HoldsOrganizerRole(ReceivedReq.event, ReceivedReq.user))
     => (/\ out'.status = 403
         /\ \A p \in Procs : pc'[p] = pc[p]
         /\ UNCHANGED <<events, participants, tasks>>)]_vars

C5_Witness ==
  /\ out.req.op = "Delete"
  /\ out.status = 403
  /\ \E e \in events : e.id = out.req.event
  /\ HasRow(out.req.event, out.req.user)

C9_DuplicateEmailIsConflict ==
  (/\ out.req.op = "Signup"
   /\ out.req.bind
   /\ out.status # 200
   /\ out.body # "store error"
   /\ \E x \in users : x.email = out.req.email)
  => out.status = 409

\* C10: a Login refused for an unknown email and a Login refused for a
\* wrong password get the same answer: status 401 and the
\* InvalidCredentials body.
C10_LoginFailuresAlike ==
  \A a, b \in seen :
    /\ a.status = b.status
    /\ a.body = b.body
    /\ a.status = 401
    /\ a.body = ErrInvalidCredentials

C10_Witness ==
  /\ \E a \in seen : a.site = "no user"
  /\ \E b \in seen : b.site = "wrong password"

\* the rows of P for event e and user u
RowsOf(P, e, u) == {r \in P : r.event_id = e /\ r.user_id = u}

OneRowPerPair(P) == \A e \in 1..MaxEvents, u \in UserIds :
                      Cardinality(RowsOf(P, e, u)) <= 1

\* slot p runs its write statement in this step and answers
Writes(p, label) ==
  pc[p] = label /\ pc'[p] = "idle" /\ out'.body # "store error"

\* C11: right after user O's Create of event E succeeds, ListOrganized(O)
\* includes E; and in every state ListOrganized(U) leaves out every event
\* in which U has no participant row.
C11_ListOrganizedRoundTrip ==
  /\ (out.req.op = "Create" /\ out.status = 200) =>
       \E e \in ListOrganized(out.req.user) : e.id = out.id
  /\ \A e \in events : \A u \in Identities :
       ~HasRow(e.id, u) => e \notin ListOrganized(u)

C11_Witness ==
  /\ out.req.op = "Create"
  /\ out.status = 200
  /\ \E e \in events :
       /\ e.id # out.id
       /\ e.organizer_id # out.req.user
       /\ e \in ListOrganized(e.organizer_id)

\* C12: SetAttendance is idempotent: once a SetAttendance(event, user,
\* status) has succeeded, running it again leaves the participant rows as
\* they are, with one row for the pair, whether the first call inserted the
\* row or updated it; and a call that finds the row already at that status
\* changes nothing.
C12_SetAttendanceIdempotent ==
  [][\A p \in Procs :
       (Writes(p, "attendance_write") /\ out'.status = 200) =>
         LET e == req[p].event
             u == req[p].target
             st == req[p].status IN
         /\ SetAttendance(participants', e, u, st) = participants'
         /\ Cardinality(RowsOf(participants', e, u)) <= 1
         /\ (\E r \in RowsOf(participants, e, u) : r.attendance = st)
              => participants' = participants]_vars

C12_Witness ==
  /\ out.req.op = "SetAttendance"
  /\ out.status = 200
  /\ nreq = MaxReq
  /\ \E r \in RowsOf(participants, out.req.event, out.req.user) :
       /\ r.role = "attendee"
       /\ r.invited_by = NoUser
       /\ r.attendance = out.req.status

\* C13: there is at most one participant row per (event id, user id) in
\* every reachable state; an Invite by an organizer for a user who has a
\* row already overwrites the role of that row and adds no row.
C13_OneRowPerPair ==
  [][/\ OneRowPerPair(participants')
     /\ \A p \in Procs :
          (/\ Writes(p, "invite_upsert")
           /\ out'.status = 200
           /\ HasRow(req[p].event, req[p].invitee))
          => /\ Cardinality(participants') = Cardinality(participants)
             /\ \A r \in RowsOf(participants', req[p].event, req[p].invitee) :
                  r.role = req[p].role]_vars

C13_Witness ==
  /\ out.req.op = "Invite"
  /\ out.status = 200
  /\ \E r \in RowsOf(participants, out.req.event, out.req.invitee) :
       r.attendance # NullAttendance /\ r.role = "collaborator"

\* C14: every participant row and every task references an existing event
\* in every reachable state, and right after a successful Delete of event E
\* no participant row and no task references E.
C14_CascadeOnDelete ==
  /\ \A r \in participants : EventExists(r.event_id)
  /\ \A t \in tasks : EventExists(t.event_id)
  /\ (out.req.op = "Delete" /\ out.status = 200) =>
       /\ ~EventExists(out.req.event)
       /\ \A r \in participants : r.event_id # out.req.event
       /\ \A t \in tasks : t.event_id # out.req.event

C14_Witness ==
  /\ out.req.op = "Delete"
  /\ out.status = 200
  /\ \E q \in Procs :
       /\ pc[q] \in {"invite_upsert", "attendance_write", "task_insert"}
       /\ req[q].event = out.req.event

\* C15: an Accept by a caller who is a registered user, on an existing
\* event, with no other request changing the caller's row or the event
\* between its two statements, is not refused, is answered 200 and leaves
\* the caller with attendance going: with the role the caller had, or with
\* a new row of role attendee when the caller had none.
C15_AcceptPermissive ==
  [][/\ (/\ Received
         /\ ReceivedReq.op = "Accept"
         /\ UserExists(ReceivedReq.user)
         /\ EventExists(ReceivedReq.event))
        => out' = NoOut
     /\ \A p \in Procs :
          LET e == req[p].event
              u == req[p].user IN
          (/\ Writes(p, "attendance_write")
           /\ req[p].op = "Accept"
           /\ UserExists(u)
           /\ EventExists(e)
           /\ (loc[p] = 1) = HasRow(e, u))
          => /\ out'.status = 200
             /\ Cardinality(RowsOf(participants', e, u)) = 1
             /\ \A r \in RowsOf(participants', e, u) :
                  /\ r.attendance = "going"
                  /\ ~HasRow(e, u) => r.role = "attendee"
                  /\ \A old \in RowsOf(participants, e, u) :
                       r.role = old.role]_vars

C15_Witness ==
  /\ out.req.op = "Accept"
  /\ out.status = 200
  /\ \E r \in RowsOf(participants, out.req.event, out.req.user) :
       /\ r.role = "attendee"
       /\ r.invited_by = NoUser
       /\ r.attendance = "going"

\* C16: a PUT attendance request (identified caller, numeric event id,
\* valid status) whose target user id is set and is not the caller is
\* answered 403 and changes no participant row; the write of a request
\* that goes on is for the caller's own row and changes no other row.
C16_OwnAttendanceOnly ==
  [][/\ (/\ Received
         /\ ReceivedReq.op = "SetAttendance"
         /\ ReceivedReq.user # 0
         /\ ReceivedReq.event > 0
         /\ ReceivedReq.status \in Statuses
         /\ ReceivedReq.target \notin {0, ReceivedReq.user})
        => /\ out'.status = 403
           /\ \A p \in Procs : pc'[p] = pc[p]
           /\ UNCHANGED participants
     /\ \A p \in Procs :
          (Writes(p, "attendance_write") /\ req[p].op = "SetAttendance")
          => /\ req[p].target = req[p].user
             /\ \A r \in participants \cup participants' :
                  (r.event_id # req[p].event \/ r.user_id # req[p].user)
                    => (r \in participants /\ r \in participants')]_vars

C16_Witness ==
  /\ out.req.op = "SetAttendance"
  /\ out.status = 403
  /\ out.req.target # out.req.user
  /\ HasRow(out.req.event, out.req.target)
  /\ HasRow(out.req.event, out.req.user)

\* the elements of a sequence
Range(s) == {s[i] : i \in DOMAIN s}

\* user u passes the role filter for event e: no user or no role given,
\* the organizer id for role organizer, a participant row of that role else
RoleFilter(e, u, role) ==
  (u # 0 /\ role # "") =>
    IF role = "organizer" THEN e.organizer_id = u
    ELSE \E row \in participants :
           row.event_id = e.id /\ row.user_id = u /\ row.role = role

\* the text contains q, whatever the case of the letters
ContainsText(text, q) ==
  \/ q = ""
  \/ text # "" /\ (text = q \/ <<text, q>> \in {<<"t", "T">>, <<"T", "t">>})

\* C17: the events a search returns are exactly the events that satisfy
\* every filter that is supplied (user with role, text, from, to), each
\* once; a filter that is absent leaves nothing out.
C17_EventsMatchAllFilters ==
  (out.req.op = "ServiceSearch" /\ out.status = 200) =>
    LET r == out.req
        matching ==
          {e \in events :
             /\ RoleFilter(e, r.user, r.role)
             /\ (\/ ContainsText(e.title, r.q)
                 \/ ContainsText(e.description, r.q)
                 \/ ContainsText(e.location, r.q))
             /\ r.from # NoDate => e.start_time >= r.from
             /\ r.to # NoDate => e.start_time <= r.to} IN
    /\ Range(out.events) = matching
    /\ Len(out.events) = Cardinality(matching)

C17_Witness ==
  /\ out.req.op = "ServiceSearch"
  /\ out.status = 200
  /\ out.req.user # 0
  /\ out.req.role = "attendee"
  /\ out.req.to # NoDate
  /\ Len(out.events) < Cardinality(events)
  /\ \E i \in DOMAIN out.events : out.events[i].start_time = out.req.from

C19_UnscheduledTasksInRange ==
  (out.req.op = "ServiceSearch" /\ out.status = 200) =>
    \A t \in tasks :
      (/\ t.due_date = NoDate
       /\ ContainsText(t.title, out.req.q)
            \/ ContainsText(t.description, out.req.q)
       /\ \E e \in events :
            e.id = t.event_id /\ RoleFilter(e, out.req.user, out.req.role))
      => t \in Range(out.tasks)

C19_Witness ==
  /\ out.req.op = "ServiceSearch"
  /\ out.status = 200
  /\ out.req.from # NoDate
  /\ out.req.to # NoDate
  /\ out.req.from > out.req.to
  /\ \E t \in tasks : t.due_date # NoDate
  /\ \E i \in DOMAIN out.tasks : out.tasks[i].due_date = NoDate

\* the last instant of the day an end parameter resolves to: for a token
\* the day on the server's local clock, for YYYY-MM-DD that date
EndOfResolvedDay(r) ==
  LET today == (r.now + r.zone) \div TicksPerDay
      EndOfLocalDay(d) == (d + 1) * TicksPerDay - r.zone - 1 IN
  CASE r.end.kind = "today" -> EndOfLocalDay(today)
    [] r.end.kind = "tomorrow" -> EndOfLocalDay(today + 1)
    [] r.end.kind = "nextweek" -> EndOfLocalDay(today + WeekDays)
    [] r.end.kind = "date" -> (r.end.day + 1) * TicksPerDay - 1

\* C20: a search with an upper date bound, token or YYYY-MM-DD, returns
\* the events (passing the text filter and the lower bound) whose start
\* time is not after the last instant of the day the bound resolved to.
C20_EndOfSameDay ==
  (out.req.op = "Search" /\ out.status = 200 /\ out.req.end # Absent) =>
    Range(out.events) =
      {e \in events :
         /\ ContainsText(e.title, out.req.q)
         /\ out.req.start # Absent => e.start_time >= fromPtr(out.req)
         /\ e.start_time <= EndOfResolvedDay(out.req)}


\* ------------------------------------------------------------------ C21
\* the duration, in clicks, from the evaluation time to the start of the
\* event of an entry
Away(o) == o.req.startTime - o.req.now
Day == HoursPerDay * ClicksPerHour

\* C21 as stated: an entry is upcoming iff the event starts strictly after
\* the evaluation time; an upcoming entry reads "in more than a month" when
\* the event is more than 30 days away, otherwise "in N days" when it is
\* more than 1 day away, otherwise "in N hours" when it is at least 1 hour
\* away, otherwise "very soon"; an entry that is not upcoming has no
\* timeUntil.
C21_Original ==
  out.req.op = "EventEntry" =>
    LET x == out.events[1]
        d == Away(out) IN
    /\ x.isUpcoming = (d > 0)
    /\ ~x.isUpcoming => x.timeUntil = NoTimeUntil
    /\ x.isUpcoming =>
         x.timeUntil.text =
           IF d > MonthDays * Day THEN "in more than a month"
           ELSE IF d > Day THEN "in N days"
           ELSE IF d >= ClicksPerHour THEN "in N hours"
           ELSE "very soon"

\* C21 A search entry is upcoming iff the event starts strictly after the
\* evaluation time, and an entry that is not upcoming has no timeUntil. An
\* upcoming entry counts whole hours and whole days (24 whole hours): it
\* reads "in more than a month" from 31 whole days on, "in N days" with N
\* the whole days from 2 to 30 whole days, "in N hours" with N the whole
\* hours from 1 whole hour to under 48 hours, and "very soon" under an hour.
C21_TimeUntilWholeUnits ==
  out.req.op = "EventEntry" =>
    LET x == out.events[1]
        d == Away(out) IN
    /\ x.isUpcoming = (d > 0)
    /\ ~x.isUpcoming => x.timeUntil = NoTimeUntil
    /\ x.isUpcoming =>
         LET u == x.timeUntil IN
         IF d >= (MonthDays + 1) * Day
           THEN u.text = "in more than a month"
         ELSE IF d >= 2 * Day
           THEN /\ u.text = "in N days"
                /\ u.n * Day <= d
                /\ d < (u.n + 1) * Day
         ELSE IF d >= ClicksPerHour
           THEN /\ u.text = "in N hours"
                /\ u.n * ClicksPerHour <= d
                /\ d < (u.n + 1) * ClicksPerHour
         ELSE u.text = "very soon"

\* an event more than 30 days away whose entry reads "in 30 days"
C21_Witness ==
  /\ out.req.op = "EventEntry"
  /\ Away(out) > MonthDays * Day
  /\ out.events[1].isUpcoming
  /\ out.events[1].timeUntil = [text |-> "in N days", n |-> MonthDays]

\* ------------------------------------------------------------------ C22
\* C22 The events of a search response are in ascending order of start
\* time; its tasks are in ascending order of due date, every task without
\* a due date coming after all the tasks that have one.
C22_ResultsOrdered ==
  out.req.op \in {"Search", "ServiceSearch"} =>
    /\ \A i, j \in DOMAIN out.events :
         i < j => out.events[i].start_time <= out.events[j].start_time
    /\ \A i, j \in DOMAIN out.tasks :
         i < j =>
           LET a == out.tasks[i].due_date
               b == out.tasks[j].due_date IN
           /\ a = NoDate => b = NoDate
           /\ (a # NoDate /\ b # NoDate) => a <= b

\* a response with two events, and with three tasks of which the one that
\* has no due date was inserted first and the earliest due one last
C22_Witness ==
  /\ out.req.op = "Search"
  /\ out.status = 200
  /\ Len(out.events) = 2
  /\ out.events[1].start_time < out.events[2].start_time
  /\ Len(out.tasks) = 3
  /\ out.tasks[1].id > out.tasks[2].id
  /\ out.tasks[2].id > out.tasks[3].id
  /\ out.tasks[3].due_date = NoDate

\* ------------------------------------------------------------------ C23
\* the rows of P of every pair but (e, u)
OtherRows(P, e, u) == P \ RowsOf(P, e, u)

\* C23 The write of SetAttendance(event, user, status) touches no row of
\* another pair. When the user has a row for the event, the row keeps its
\* role and its invited-by whatever the role, and its attendance becomes the
\* status when the call succeeds. When the user has no row, and the call
\* found none, a row with role attendee and the given attendance is
\* inserted for an existing event and user.
C23_AttendanceFrame ==
  [][\A p \in Procs :
       Writes(p, "attendance_write") =>
         LET e == req[p].event
             u == req[p].target
             st == req[p].status
             old == RowsOf(participants, e, u)
             new == RowsOf(participants', e, u) IN
         /\ OtherRows(participants', e, u) = OtherRows(participants, e, u)
         /\ \A r \in old :
              /\ new \in {{r}, {[r EXCEPT !.attendance = st]}}
              /\ out'.status = 200 => new = {[r EXCEPT !.attendance = st]}
         /\ (old = {} /\ loc[p] = 0 /\ EventExists(e) /\ UserExists(u))
              => /\ out'.status = 200
                 /\ new = {[event_id |-> e, user_id |-> u, role |-> "attendee",
                            attendance |-> st, invited_by |-> NoUser]}]_vars

\* a collaborator invited by another user has set an attendance and is
\* still a collaborator invited by that user
C23_Witness ==
  /\ out.req.op = "SetAttendance"
  /\ out.status = 200
  /\ \E r \in RowsOf(participants, out.req.event, out.req.user) :
       /\ r.role = "collaborator"
       /\ r.invited_by \notin {NoUser, out.req.user}
       /\ r.attendance = out.req.status

\* ------------------------------------------------------------------ C24
\* C24 An event that has a participant row with role organizer keeps at
\* least one such row for as long as it exists, under any interleaving of
\* requests: two organizers who invite each other with another role at the
\* same time do not leave the event without an organizer.
C24_OrganizerKept ==
  [][\A e \in events' :
       (e \in events /\ OrganizerRowsOf(e.id) # {})
         => \E r \in participants' : r.event_id = e.id /\ r.role = "organizer"
    ]_vars

\* ------------------------------------------------------------------ C25
\* the events whose creator has a participant row, no Create being between
\* its two INSERTs for them
Completed == {e \in events : Settled(e.id) /\ HasRow(e.id, e.organizer_id)}

\* C25 In every state and for every user u, the events that
\* ListOrganized(u) returns are the events whose organizer_id is u, among
\* the events whose creation has completed; so the creator of an event has
\* role organizer for as long as the event exists.
C25_OrganizedIsOrganizerId ==
  \A u \in UserIds :
    ListOrganized(u) \cap Completed = {e \in Completed : e.organizer_id = u}

\* ------------------------------------------------------------------ C26
\* C26 A step that deletes an event, or that inserts a task, is taken for a
\* caller who holds role organizer for the event when the step is taken: a
\* caller whose organizer role an Invite overwrote after the caller's check
\* deletes no event and inserts no task.
C26_OrganizerAtMutation ==
  [][\A p \in Procs :
       /\ (Writes(p, "delete_exec") /\ events' # events)
            => HoldsOrganizerRole(req[p].event, req[p].user)
       /\ (Writes(p, "task_insert") /\ tasks' # tasks)
            => HoldsOrganizerRole(req[p].event, req[p].user)]_vars

\* ------------------------------------------------------------------ C27
\* the role user u holds for event e in P, "" when u has no row
RoleOf(P, e, u) ==
  IF RowsOf(P, e, u) = {} THEN ""
  ELSE (CHOOSE r \in RowsOf(P, e, u) : TRUE).role

\* slot p runs the write of an Invite of user u to event e in this step
InviteWrites(p, e, u) ==
  Writes(p, "invite_upsert") /\ req[p].event = e /\ req[p].invitee = u

\* C27 An Invite gets to its write only if its caller holds role organizer
\* for the event when checked. A user comes to hold role organizer for an
\* event only by the second INSERT of that user's Create of the event or by
\* the write of an Invite naming the user with role organizer; the role of
\* an existing row changes only by the write of an Invite: no SetAttendance,
\* accept, search, list or refused request gives the organizer role or
\* changes a role.
C27_OrganizerOnlyByCreateOrInvite ==
  [][/\ \A p \in Procs :
          (pc[p] = "idle" /\ pc'[p] = "invite_upsert")
            => HoldsOrganizerRole(req'[p].event, req'[p].user)
     /\ \A e \in 1..MaxEvents, u \in Identities :
          LET a == RoleOf(participants, e, u)
              b == RoleOf(participants', e, u) IN
          /\ (b = "organizer" /\ a # "organizer") =>
               \E p \in Procs :
                 \/ /\ Writes(p, "create_insert_participant")
                    /\ loc[p] = e
                    /\ req[p].user = u
                 \/ InviteWrites(p, e, u) /\ req[p].role = "organizer"
          /\ (a # "" /\ b # "" /\ a # b) =>
               \E p \in Procs : InviteWrites(p, e, u)]_vars

\* an organizer's Invite has made another user an organizer
C27_Witness ==
  /\ out.req.op = "Invite"
  /\ out.status = 200
  /\ out.req.role = "organizer"
  /\ RoleOf(participants, out.req.event, out.req.invitee) = "organizer"
  /\ HoldsOrganizerRole(out.req.event, out.req.user)
  /\ \E e \in events : e.id = out.req.event /\ e.organizer_id = out.req.user

\* ------------------------------------------------------------------ C28
\* the attendance of user u for event e in P, null when u has no row
AttendanceOf(P, e, u) ==
  IF RowsOf(P, e, u) = {} THEN NullAttendance
  ELSE (CHOOSE r \in RowsOf(P, e, u) : TRUE).attendance

\* C28 The attendance of the participant row of a user B changes only by
\* the write of an attendance or accept request made by B for that event,
\* or by the deletion of the event with all its rows: the write of an
\* Invite for B keeps the attendance of B's row and changes its role and
\* invited-by only.
C28_AttendanceByOwnerOnly ==
  [][\A e \in 1..MaxEvents, u \in Identities :
       /\ AttendanceOf(participants', e, u) # AttendanceOf(participants, e, u)
            => \/ \E p \in Procs :
                    /\ Writes(p, "attendance_write")
                    /\ req[p].event = e
                    /\ req[p].user = u
               \/ \E p \in Procs :
                    /\ Writes(p, "delete_exec")
                    /\ req[p].event = e
                    /\ RowsOf(participants', e, u) = {}
       /\ \A p \in Procs :
            (InviteWrites(p, e, u) /\ HasRow(e, u)) =>
              \A r \in RowsOf(participants, e, u) :
                RowsOf(participants', e, u)
                  \in {{r}, {[r EXCEPT !.role = req[p].role,
                                       !.invited_by = req[p].user]}}]_vars

\* an Invite has overwritten the role and the invited-by of a row whose
\* user had answered, and the answer is still there
C28_Witness ==
  /\ out.req.op = "Invite"
  /\ out.status = 200
  /\ \E r \in RowsOf(participants, out.req.event, out.req.invitee) :
       /\ r.attendance \in Statuses
       /\ r.invited_by = out.req.user
       /\ r.role = out.req.role
       /\ r.role # "attendee"

\* ------------------------------------------------------------------ C29
\* the row left by the INSERT of an attendance or accept request of user u
\* for event e, not written since: another request of u has inserted it
InsertedByOwner(e, u) ==
  \E r \in RowsOf(participants, e, u) :
    r.role = "attendee" /\ r.invited_by = NoUser

\* C29 Of two attendance or accept requests that the same user makes at the
\* same time for an event with an organizer in which the user has no row,
\* the one that writes second, having found no row before the first wrote,
\* succeeds too, and leaves one row for the pair, whose attendance is the
\* status of one of the two requests.
C29_ConcurrentAttendanceSucceeds ==
  [][\A p \in Procs :
       (/\ Writes(p, "attendance_write")
        /\ loc[p] = 0
        /\ OrganizerRowsOf(req[p].event) # {}
        /\ InsertedByOwner(req[p].event, req[p].user))
       => /\ out'.status = 200
          /\ Cardinality(RowsOf(participants', req[p].event, req[p].user)) = 1
          /\ \A r \in RowsOf(participants, req[p].event, req[p].user) :
               AttendanceOf(participants', req[p].event, req[p].user)
                 \in {r.attendance, req[p].status}]_vars
====
